---- MODULE Spec2Model ----
(***************************************************************************)
(* A model of scripts/bmad_live_board.py: the status normaliser, the       *)
(* sprint-status parser, the title extractor, the story-file parser and    *)
(* the board aggregator build_board_data.                                  *)
(*                                                                         *)
(* Text is modelled as follows.  A key (a status-table key, a story file's *)
(* stem) is a sequence of one-character strings, so that the regular       *)
(* expressions EPIC_KEY_RE and STORY_KEY_RE and the int() conversions are  *)
(* computed character by character.  A title is a sequence of characters  *)
(* too.  A status text is a TLA+ string.  A line of a document is a record *)
(* that names the line's shape and carries its captured parts.             *)
(***************************************************************************)
EXTENDS Integers, Sequences, FiniteSets, TLC

VARIABLES sprintDoc, storyFiles, visualDoc, epicsDoc, served, board,
          scan_pc, scan_idx, in_dev, statuses,
          p_done, p_total, p_pc, progress

fsVars == <<sprintDoc, storyFiles, visualDoc, epicsDoc>>
boardVars == <<served, board>>
scanVars == <<scan_pc, scan_idx, in_dev, statuses>>
progVars == <<p_done, p_total, p_pc, progress>>
vars == <<sprintDoc, storyFiles, visualDoc, epicsDoc, served, board,
          scan_pc, scan_idx, in_dev, statuses,
          p_done, p_total, p_pc, progress>>

(***************************************************************************)
(* Bounds of the model.                                                    *)
(***************************************************************************)
MaxEntries == 2
MaxFiles == 1
MaxDocLines == 5
MaxTitleLines == 2
MaxTotal == 50

(***************************************************************************)
(* Characters and generic helpers.                                         *)
(***************************************************************************)
Digits == {"0", "1", "2", "3", "4", "5", "6", "7", "8", "9"}

LowerLetters ==
  {"a", "b", "c", "d", "e", "f", "g", "h", "i", "j", "k", "l", "m",
   "n", "o", "p", "q", "r", "s", "t", "u", "v", "w", "x", "y", "z"}

DigitVal ==
  [c \in Digits |->
     CASE c = "0" -> 0 [] c = "1" -> 1 [] c = "2" -> 2 [] c = "3" -> 3
       [] c = "4" -> 4 [] c = "5" -> 5 [] c = "6" -> 6 [] c = "7" -> 7
       [] c = "8" -> 8 [] c = "9" -> 9]

DigitChar ==
  [d \in 0..9 |->
     CASE d = 0 -> "0" [] d = 1 -> "1" [] d = 2 -> "2" [] d = 3 -> "3"
       [] d = 4 -> "4" [] d = 5 -> "5" [] d = 6 -> "6" [] d = 7 -> "7"
       [] d = 8 -> "8" [] d = 9 -> "9"]

UpperOf ==
  [c \in LowerLetters |->
     CASE c = "a" -> "A" [] c = "b" -> "B" [] c = "c" -> "C" [] c = "d" -> "D"
       [] c = "e" -> "E" [] c = "f" -> "F" [] c = "g" -> "G" [] c = "h" -> "H"
       [] c = "i" -> "I" [] c = "j" -> "J" [] c = "k" -> "K" [] c = "l" -> "L"
       [] c = "m" -> "M" [] c = "n" -> "N" [] c = "o" -> "O" [] c = "p" -> "P"
       [] c = "q" -> "Q" [] c = "r" -> "R" [] c = "s" -> "S" [] c = "t" -> "T"
       [] c = "u" -> "U" [] c = "v" -> "V" [] c = "w" -> "W" [] c = "x" -> "X"
       [] c = "y" -> "Y" [] c = "z" -> "Z"]

\* The [a-z0-9-] character class of STORY_KEY_RE and of the table line.
IsKeyChar(c) == c \in LowerLetters \cup Digits \cup {"-"}

\* s[from..Len(s)]
Tail_From(s, from) == SubSeq(s, from, Len(s))

\* The length of the longest run of digits of s that starts at position i:
\* what a greedy (\d+) consumes there.
RECURSIVE DigitRun(_, _)
DigitRun(s, i) ==
  IF i > Len(s) \/ s[i] \notin Digits THEN 0 ELSE 1 + DigitRun(s, i + 1)

\* int() of a string of decimal digits (leading zeros allowed).
RECURSIVE IntOfDigits(_)
IntOfDigits(ds) ==
  IF ds = <<>> THEN 0
  ELSE 10 * IntOfDigits(SubSeq(ds, 1, Len(ds) - 1)) + DigitVal[ds[Len(ds)]]

\* str() of a natural number: the digits of an f-string's {number}.
RECURSIVE StrOfInt(_)
StrOfInt(n) ==
  IF n < 10 THEN <<DigitChar[n]>>
  ELSE StrOfInt(n \div 10) \o <<DigitChar[n % 10]>>

(***************************************************************************)
(* The status vocabularies and normalize_status.                           *)
(***************************************************************************)
STORY_STATUS_ORDER ==
  <<"backlog", "ready-for-dev", "in-progress", "review", "done", "optional">>

EPIC_STATUS_ORDER == <<"backlog", "in-progress", "done", "optional">>

Range(s) == {s[i] : i \in DOMAIN s}

\* Python's None where a status is expected.
NoneStatus == "<None>"

\* str.strip().lower() on the status texts of the model.  The texts reach
\* normalize_status without surrounding white space (the regular
\* expressions that capture them exclude it), so only lower() acts.
StripLower(raw) ==
  CASE raw = "Done" -> "done"
    [] raw = "In Progress" -> "in progress"
    [] raw = "REVIEW" -> "review"
    [] OTHER -> raw

normalize_status(raw, fallback) ==
  IF raw = NoneStatus \/ raw = "" THEN fallback
  ELSE LET value == StripLower(raw) IN
       IF value \in Range(STORY_STATUS_ORDER) \/ value \in Range(EPIC_STATUS_ORDER)
         THEN value
       ELSE IF value \in {"ready", "ready for dev"} THEN "ready-for-dev"
       ELSE IF value \in {"in progress", "doing", "wip"} THEN "in-progress"
       ELSE fallback

(***************************************************************************)
(* The status document.  A line is [indent, kind, key, value]: `indent`    *)
(* leading spaces followed by a body of the given kind:                    *)
(*   "marker"   development_status:                                        *)
(*   "blank"    nothing                                                    *)
(*   "comment"  # ...                                                      *)
(*   "kv"       <key>: <value>                                             *)
(*   "text"     anything else                                              *)
(***************************************************************************)
NoKey == <<>>

Line(indent, kind, key, value) ==
  [indent |-> indent, kind |-> kind, key |-> key, value |-> value]

\* The lower-case words [a-z-]+ among the status texts of the model.
IsLowerWord(v) ==
  v \in {"done", "review", "blocked", "wip", "backlog", "in-progress",
         "ready-for-dev", "optional", "ready", "doing"}

\* re.match(r"^\s{2}([a-z0-9-]+):\s*([a-z-]+)\s*$", line)
TableLineMatches(line) ==
  /\ line.kind = "kv"
  /\ line.indent = 2
  /\ line.key # <<>>
  /\ \A i \in DOMAIN line.key : IsKeyChar(line.key[i])
  /\ IsLowerWord(line.value)

\* statuses[key] = value on a dict kept as a sequence of <<key, value>> in
\* insertion order: an existing key keeps its place.
DictHas(d, key) == \E i \in DOMAIN d : d[i][1] = key

DictGet(d, key) == d[CHOOSE i \in DOMAIN d : d[i][1] = key][2]

DictSet(d, key, value) ==
  IF DictHas(d, key)
    THEN [i \in DOMAIN d |-> IF d[i][1] = key THEN <<key, value>> ELSE d[i]]
    ELSE Append(d, <<key, value>>)

DictKeys(d) == {d[i][1] : i \in DOMAIN d}

\* The loop body without its break: an unindented line is skipped like a
\* malformed one and the block goes on.
ScanStepDropsBreak(st, line) ==
  IF ~st.in_dev
    THEN IF line.kind = "marker" THEN [st EXCEPT !.in_dev = TRUE] ELSE st
  ELSE IF line.kind = "blank" \/ line.kind = "comment" THEN st
  ELSE IF ~TableLineMatches(line) THEN st
  ELSE [st EXCEPT !.statuses =
          DictSet(st.statuses, line.key, normalize_status(line.value, line.value))]

\* One iteration of the loop of parse_sprint_status over `line`, from the
\* loop state st = [in_dev, statuses, broke].
ScanStep(st, line) ==
  IF ~st.in_dev
    THEN IF line.kind = "marker" THEN [st EXCEPT !.in_dev = TRUE] ELSE st
  ELSE IF line.kind = "blank" \/ line.kind = "comment" THEN st
  ELSE IF line.indent < 2 THEN [st EXCEPT !.broke = TRUE]
  ELSE IF ~TableLineMatches(line) THEN st
  ELSE [st EXCEPT !.statuses =
          DictSet(st.statuses, line.key, normalize_status(line.value, line.value))]

ScanStart == [in_dev |-> FALSE, statuses |-> <<>>, broke |-> FALSE]

RECURSIVE ScanFrom(_, _, _)
ScanFrom(st, doc, i) ==
  IF i > Len(doc) \/ st.broke THEN st
  ELSE ScanFrom(ScanStep(st, doc[i]), doc, i + 1)

\* The empty document stands for a missing, unreadable or empty file:
\* read_text gives "" for each and the parser returns {}.
parse_sprint_status(doc) ==
  IF doc = <<>> THEN <<>> ELSE ScanFrom(ScanStart, doc, 1).statuses

(***************************************************************************)
(* The key shapes.                                                         *)
(***************************************************************************)
EpicPrefix == <<"e", "p", "i", "c", "-">>

\* EPIC_KEY_RE = ^epic-(\d+)$
EpicKeyMatches(key) ==
  /\ Len(key) > 5
  /\ SubSeq(key, 1, 5) = EpicPrefix
  /\ DigitRun(key, 6) = Len(key) - 5

EpicKeyNumber(key) == IntOfDigits(Tail_From(key, 6))

\* STORY_KEY_RE = ^(\d+)-(\d+)-([a-z0-9-]+)$ .  A greedy (\d+) followed by
\* "-" takes the whole run of digits, so the three groups are determined.
StoryKeyMatches(key) ==
  LET d1 == DigitRun(key, 1)
      d2 == DigitRun(key, d1 + 2)
  IN /\ d1 >= 1
     /\ Len(key) >= d1 + 1 /\ key[d1 + 1] = "-"
     /\ d2 >= 1
     /\ Len(key) >= d1 + d2 + 2 /\ key[d1 + d2 + 2] = "-"
     /\ Len(key) >= d1 + d2 + 3
     /\ \A i \in (d1 + d2 + 3)..Len(key) : IsKeyChar(key[i])

StoryKeyEpic(key) == IntOfDigits(SubSeq(key, 1, DigitRun(key, 1)))

StoryKeyStory(key) ==
  LET d1 == DigitRun(key, 1)
  IN IntOfDigits(SubSeq(key, d1 + 2, d1 + 1 + DigitRun(key, d1 + 2)))

StoryKeySlug(key) ==
  LET d1 == DigitRun(key, 1)
  IN Tail_From(key, d1 + DigitRun(key, d1 + 2) + 3)

\* f"{epic_number}-{story_number}"
CompactKey(epic, story) == StrOfInt(epic) \o <<"-">> \o StrOfInt(story)

RECURSIVE StripSpaces(_)
StripSpaces(s) ==
  IF s = <<>> THEN s
  ELSE IF s[1] = " " THEN StripSpaces(Tail(s))
  ELSE IF s[Len(s)] = " " THEN StripSpaces(SubSeq(s, 1, Len(s) - 1))
  ELSE s

\* str.title() on lower-case letters, digits and spaces: a letter that
\* does not follow a letter is upper-cased.
TitleCase(s) ==
  [i \in DOMAIN s |->
     IF s[i] \in LowerLetters /\ (i = 1 \/ s[i - 1] \notin LowerLetters)
       THEN UpperOf[s[i]] ELSE s[i]]

title_from_story_key(key) ==
  IF ~StoryKeyMatches(key) THEN key
  ELSE LET slug == StoryKeySlug(key)
           spaced == [i \in DOMAIN slug |-> IF slug[i] = "-" THEN " " ELSE slug[i]]
       IN TitleCase(StripSpaces(spaced))

(***************************************************************************)
(* The planning documents.  A line is [kind, epic, story, title]:          *)
(*   "epic"   ### Epic <epic>: <title>                                     *)
(*   "story"  - <epic>.<story> <title>                                     *)
(*   "text"   anything else                                                *)
(* with epic and story the digits as written.  Python's None where a title *)
(* is expected is the empty sequence: a captured title is never empty.     *)
(***************************************************************************)
NoTitle == <<>>

TitleLine(kind, epic, story, title) ==
  [kind |-> kind, epic |-> epic, story |-> story, title |-> title]

\* d[key] = value on a dict kept as a function.
FnSet(d, key, value) ==
  [k \in DOMAIN d \cup {key} |-> IF k = key THEN value ELSE d[k]]

EmptyFn == [k \in {} |-> NoTitle]

\* The loop body of parse_epic_and_story_titles over one line; the
\* titles so far are t = [epic_titles, story_titles].
TitleStep(t, line) ==
  IF line.kind = "epic"
    THEN [t EXCEPT !.epic_titles =
            FnSet(t.epic_titles, IntOfDigits(line.epic), line.title)]
  ELSE IF line.kind = "story"
    THEN [t EXCEPT !.story_titles =
            FnSet(t.story_titles,
                  CompactKey(IntOfDigits(line.epic), IntOfDigits(line.story)),
                  line.title)]
  ELSE t

RECURSIVE TitleScan(_, _, _)
TitleScan(t, doc, i) ==
  IF i > Len(doc) THEN t ELSE TitleScan(TitleStep(t, doc[i]), doc, i + 1)

\* files is the list of documents in the caller's order; an empty
\* document (a missing file) contributes nothing.
RECURSIVE parse_epic_and_story_titles(_)
parse_epic_and_story_titles(files) ==
  IF files = <<>> THEN [epic_titles |-> EmptyFn, story_titles |-> EmptyFn]
  ELSE TitleScan(parse_epic_and_story_titles(SubSeq(files, 1, Len(files) - 1)),
                 files[Len(files)], 1)

(***************************************************************************)
(* Story files.  A line is [kind, indent, title, value, checked]:          *)
(*   "title"   # Story <n>.<m>: <title>                                    *)
(*   "status"  Status: <value>                                             *)
(*   "box"     - [ ] or - [x], after `indent` spaces                       *)
(*   "text"    anything else                                               *)
(***************************************************************************)
FileLine(kind, indent, title, value, checked) ==
  [kind |-> kind, indent |-> indent, title |-> title, value |-> value,
   checked |-> checked]

NoneTime == "<None>"

\* The mtime of an existing file, as an ISO-8601 text.
MTime == "mtime"

StoryStep(st, line) ==
  IF st.title = NoTitle /\ line.kind = "title"
    THEN [st EXCEPT !.title = line.title]
  ELSE LET status == IF st.status = NoneStatus /\ line.kind = "status"
                       THEN normalize_status(line.value, "backlog")
                       ELSE st.status
       IN [st EXCEPT !.status = status,
                     !.stop = (st.title # NoTitle /\ status # NoneStatus)]

RECURSIVE StoryScan(_, _, _)
StoryScan(st, text, i) ==
  IF i > Len(text) \/ st.stop THEN st
  ELSE StoryScan(StoryStep(st, text[i]), text, i + 1)

\* CHECKBOX_TOTAL_RE and CHECKBOX_DONE_RE match at the start of a line.
CountBoxes(text, doneOnly) ==
  Cardinality({i \in DOMAIN text :
                 /\ text[i].kind = "box"
                 /\ text[i].indent = 0
                 /\ (doneOnly => text[i].checked)})

ReadText(files, key) == IF key \in DOMAIN files THEN files[key] ELSE <<>>

parse_story_file(files, key) ==
  LET text == ReadText(files, key) IN
  IF text = <<>>
    THEN [title |-> NoTitle, status |-> NoneStatus, checklist_done |-> 0,
          checklist_total |-> 0, updated_at |-> NoneTime]
  ELSE LET st == StoryScan([title |-> NoTitle, status |-> NoneStatus,
                            stop |-> FALSE], text, 1)
       IN [title |-> st.title, status |-> st.status,
           checklist_done |-> CountBoxes(text, TRUE),
           checklist_total |-> CountBoxes(text, FALSE),
           updated_at |-> IF key \in DOMAIN files THEN MTime ELSE NoneTime]

(***************************************************************************)
(* The progress percentage int((done / total) * 100) is computed in IEEE   *)
(* 754 double precision: a correctly rounded division, a correctly rounded *)
(* multiplication by 100.0 and a truncation.  A double is [m, e], the      *)
(* value m * 2^e with m an integer below 2^53 (at most 2^53 after a        *)
(* rounding carry, the same value as 2^52 with e + 1).  m is kept as six   *)
(* limbs of LimbBits bits, least significant first, every intermediate     *)
(* staying within 32-bit integers.                                         *)
(***************************************************************************)
LimbBits == 13
LimbBase == 8192
MantissaBits == 52

\* x + 1
BigInc(x) ==
  LET carryInto(i) == \A j \in 1..(i - 1) : x[j] = LimbBase - 1
  IN [i \in 1..6 |->
        IF carryInto(i) THEN (IF x[i] = LimbBase - 1 THEN 0 ELSE x[i] + 1)
        ELSE x[i]]

\* x * k for a small k
RECURSIVE MulCarry(_, _, _)
MulCarry(x, k, i) ==
  IF i = 0 THEN 0 ELSE (x[i] * k + MulCarry(x, k, i - 1)) \div LimbBase

BigMulSmall(x, k) ==
  [i \in 1..6 |-> (x[i] * k + MulCarry(x, k, i - 1)) % LimbBase]

\* floor(x / 2^r) for 0 <= r < LimbBits
BigShr(x, r) ==
  [i \in 1..6 |->
     (x[i] \div 2^r)
       + (IF i < 6 THEN (x[i + 1] % 2^r) * 2^(LimbBits - r) ELSE 0)]

\* floor(x / 2^n) for any n >= 0
RECURSIVE BigShrAny(_, _)
BigShrAny(x, n) ==
  IF n >= LimbBits
    THEN BigShrAny([i \in 1..6 |-> IF i < 6 THEN x[i + 1] ELSE 0], n - LimbBits)
    ELSE BigShr(x, n)

\* x < 2^53
BigFits(x) == x[6] = 0 /\ x[5] < 2

\* The integer a small x is.
BigToInt(x) == x[1] + LimbBase * x[2]

\* The smallest s with a * 2^s >= b, for 0 < a <= b.
RECURSIVE NormShift(_, _)
NormShift(a, b) == IF a >= b THEN 0 ELSE 1 + NormShift(2 * a, b)

\* a / b for integers 0 < a <= b, rounded to the nearest double, ties to
\* even: with n = a * 2^s in [b, 2b), the 53-bit quotient of n * 2^52 by b,
\* by long division limb by limb.
FloatDiv(a, b) ==
  LET s == NormShift(a, b)
      n == a * 2^s
      r0 == n % b
      d1 == (r0 * LimbBase) \div b
      r1 == (r0 * LimbBase) % b
      d2 == (r1 * LimbBase) \div b
      r2 == (r1 * LimbBase) % b
      d3 == (r2 * LimbBase) \div b
      r3 == (r2 * LimbBase) % b
      d4 == (r3 * LimbBase) \div b
      r4 == (r3 * LimbBase) % b
      q == <<d4, d3, d2, d1, n \div b, 0>>
      up == 2 * r4 > b \/ (2 * r4 = b /\ d4 % 2 = 1)
  IN [m |-> IF up THEN BigInc(q) ELSE q, e |-> 0 - (MantissaBits + s)]

\* x * k for a small integer k, rounded to the nearest double, ties to even.
FloatMulSmall(x, k) ==
  LET p == BigMulSmall(x.m, k)
      sh == CHOOSE j \in 0..(LimbBits - 1) :
              /\ BigFits(BigShr(p, j))
              /\ (j = 0 \/ ~BigFits(BigShr(p, j - 1)))
      q == BigShr(p, sh)
      guard == sh > 0 /\ (p[1] \div 2^(sh - 1)) % 2 = 1
      sticky == sh > 1 /\ p[1] % 2^(sh - 1) # 0
      up == guard /\ (sticky \/ q[1] % 2 = 1)
  IN [m |-> IF up THEN BigInc(q) ELSE q, e |-> x.e + sh]

\* int(x) for a double 0 <= x < 2^13 with x.e <= 0: truncation.
FloatTrunc(x) == BigToInt(BigShrAny(x.m, 0 - x.e))

\* floor(100 * done / total) in exact integer arithmetic, 0 for total = 0.
ExactFloorPercent(done, total) ==
  IF total = 0 THEN 0 ELSE (100 * done) \div total

\* int((done / total) * 100) if total else 0, for 0 <= done <= total;
\* 0 / total is 0.0 exactly.
ProgressPercent(done, total) ==
  IF total = 0 THEN 0
  ELSE IF done = 0 THEN 0
  ELSE FloatTrunc(FloatMulSmall(FloatDiv(done, total), 100))

(***************************************************************************)
(* build_board_data.  `fs` is the artifact tree at the time of the call:   *)
(* [sprint, files, visual, epics], the status document, the *.md files of  *)
(* implementation-artifacts by stem, and the two planning documents.  The  *)
(* snapshot's generated_at, its paths, its warnings and the stories'       *)
(* display_number and file_path are left out: nothing else reads them.     *)
(***************************************************************************)
StoryEntry(key, epic, story, title, status, fromSprint, parsed, mismatch, exists) ==
  [key |-> key, epic_number |-> epic, story_number |-> story, title |-> title,
   status |-> status, status_from_sprint |-> fromSprint,
   status_from_file |-> parsed.status, status_mismatch |-> mismatch,
   file_exists |-> exists, updated_at |-> parsed.updated_at,
   checklist_done |-> parsed.checklist_done,
   checklist_total |-> parsed.checklist_total]

\* file_exists as the second pass sets it, True, whatever is on disk.
FileExistsAlways(files, key) == TRUE

\* story_file.exists()
FileExists(files, key) == key \in DOMAIN files

\* dict.get(key, default)
FnGet(d, key, default) == IF key \in DOMAIN d THEN d[key] ELSE default

\* story_titles.get(compact) or parsed.title or title_from_story_key(key)
StoryTitle(titles, epic, story, parsed, key) ==
  LET planned == FnGet(titles.story_titles, CompactKey(epic, story), NoTitle)
  IN IF planned # NoTitle THEN planned
     ELSE IF parsed.title # NoTitle THEN parsed.title
     ELSE title_from_story_key(key)

\* f"Epic {number}"
DefaultEpicTitle(number) == <<"E", "p", "i", "c", " ">> \o StrOfInt(number)

\* The loop body with the file's status, where it declares one, as the
\* effective status.
TableStepFileWins(acc, fs, titles, key, value) ==
  IF EpicKeyMatches(key)
    THEN [acc EXCEPT !.epic_entries = Append(@,
            [key |-> key, number |-> EpicKeyNumber(key),
             title |-> FnGet(titles.epic_titles, EpicKeyNumber(key),
                             DefaultEpicTitle(EpicKeyNumber(key))),
             status |-> normalize_status(value, "backlog")])]
  ELSE IF ~StoryKeyMatches(key) THEN acc
  ELSE LET epic_number == StoryKeyEpic(key)
           story_number == StoryKeyStory(key)
           parsed == parse_story_file(fs.files, key)
           mapped_status == normalize_status(value, "backlog")
           file_status == parsed.status
           status_mismatch ==
             file_status # NoneStatus /\ file_status # "" /\ file_status # mapped_status
       IN [acc EXCEPT
             !.story_keys_in_status = @ \cup {key},
             !.story_entries = Append(@,
                StoryEntry(key, epic_number, story_number,
                           StoryTitle(titles, epic_number, story_number, parsed, key),
                           IF file_status # NoneStatus THEN file_status ELSE mapped_status,
                           mapped_status, parsed, status_mismatch,
                           FileExists(fs.files, key)))]

\* The body of the loop over statuses.items(); acc = [epic_entries,
\* story_entries, story_keys_in_status].
TableStep(acc, fs, titles, key, value) ==
  IF EpicKeyMatches(key)
    THEN [acc EXCEPT !.epic_entries = Append(@,
            [key |-> key, number |-> EpicKeyNumber(key),
             title |-> FnGet(titles.epic_titles, EpicKeyNumber(key),
                             DefaultEpicTitle(EpicKeyNumber(key))),
             status |-> normalize_status(value, "backlog")])]
  ELSE IF ~StoryKeyMatches(key) THEN acc
  ELSE LET epic_number == StoryKeyEpic(key)
           story_number == StoryKeyStory(key)
           parsed == parse_story_file(fs.files, key)
           mapped_status == normalize_status(value, "backlog")
           file_status == parsed.status
           status_mismatch ==
             file_status # NoneStatus /\ file_status # "" /\ file_status # mapped_status
       IN [acc EXCEPT
             !.story_keys_in_status = @ \cup {key},
             !.story_entries = Append(@,
                StoryEntry(key, epic_number, story_number,
                           StoryTitle(titles, epic_number, story_number, parsed, key),
                           mapped_status, mapped_status, parsed, status_mismatch,
                           FileExists(fs.files, key)))]

RECURSIVE TableLoop(_, _, _, _, _)
TableLoop(acc, fs, titles, items, i) ==
  IF i > Len(items) THEN acc
  ELSE TableLoop(TableStep(acc, fs, titles, items[i][1], items[i][2]),
                 fs, titles, items, i + 1)

Alphabet ==
  <<"a", "b", "c", "d", "e", "f", "g", "h", "i", "j", "k", "l", "m",
    "n", "o", "p", "q", "r", "s", "t", "u", "v", "w", "x", "y", "z">>

\* The order of characters in a path: "-" < "." < digits < lower-case letters.
CharRank(c) ==
  IF c = "-" THEN 0
  ELSE IF c = "." THEN 1
  ELSE IF c \in Digits THEN 2 + DigitVal[c]
  ELSE 11 + (CHOOSE n \in DOMAIN Alphabet : Alphabet[n] = c)

\* a < b for two strings, character by character.
RECURSIVE StrLess(_, _)
StrLess(a, b) ==
  IF b = <<>> THEN FALSE
  ELSE IF a = <<>> THEN TRUE
  ELSE IF a[1] = b[1] THEN StrLess(Tail(a), Tail(b))
  ELSE CharRank(a[1]) < CharRank(b[1])

PathOf(stem) == stem \o <<".", "m", "d">>

\* sorted(impl_dir.glob("*.md")), as the sequence of the stems.
RECURSIVE SortedGlob(_)
SortedGlob(stems) ==
  IF stems = {} THEN <<>>
  ELSE LET first == CHOOSE k \in stems :
                      \A o \in stems \ {k} : StrLess(PathOf(k), PathOf(o))
       IN <<first>> \o SortedGlob(stems \ {first})

\* The loop body without the test of story_keys_in_status.
GlobStepNoSkip(acc, fs, titles, story_key) ==
  IF ~StoryKeyMatches(story_key) THEN acc
  ELSE LET epic_number == StoryKeyEpic(story_key)
           story_number == StoryKeyStory(story_key)
           parsed == parse_story_file(fs.files, story_key)
           fallback_status ==
             IF parsed.status # NoneStatus /\ parsed.status # ""
               THEN parsed.status ELSE "backlog"
       IN [acc EXCEPT !.story_entries = Append(@,
             StoryEntry(story_key, epic_number, story_number,
                        StoryTitle(titles, epic_number, story_number, parsed, story_key),
                        normalize_status(fallback_status, "backlog"),
                        NoneStatus, parsed, FALSE, TRUE))]

\* The body of the loop over the story files; acc as above.
GlobStep(acc, fs, titles, story_key) ==
  IF ~StoryKeyMatches(story_key) \/ story_key \in acc.story_keys_in_status THEN acc
  ELSE LET epic_number == StoryKeyEpic(story_key)
           story_number == StoryKeyStory(story_key)
           parsed == parse_story_file(fs.files, story_key)
           fallback_status ==
             IF parsed.status # NoneStatus /\ parsed.status # ""
               THEN parsed.status ELSE "backlog"
       IN [acc EXCEPT !.story_entries = Append(@,
             StoryEntry(story_key, epic_number, story_number,
                        StoryTitle(titles, epic_number, story_number, parsed, story_key),
                        normalize_status(fallback_status, "backlog"),
                        NoneStatus, parsed, FALSE, TRUE))]

RECURSIVE GlobLoop(_, _, _, _, _)
GlobLoop(acc, fs, titles, stems, i) ==
  IF i > Len(stems) THEN acc
  ELSE GlobLoop(GlobStep(acc, fs, titles, stems[i]), fs, titles, stems, i + 1)

\* epic_map after both of its loops: the table's epics, a later entry of
\* the same number replacing an earlier one, then an epic for every story
\* whose number is not there yet.
RECURSIVE EpicMapOfEntries(_, _)
EpicMapOfEntries(epic_entries, i) ==
  IF i = 0 THEN [n \in {} |-> 0]
  ELSE FnSet(EpicMapOfEntries(epic_entries, i - 1),
             epic_entries[i].number, epic_entries[i])

RECURSIVE EpicMapWithStories(_, _, _, _)
EpicMapWithStories(epic_map, titles, story_entries, i) ==
  IF i > Len(story_entries) THEN epic_map
  ELSE LET number == story_entries[i].epic_number
       IN EpicMapWithStories(
            IF number \in DOMAIN epic_map THEN epic_map
            ELSE FnSet(epic_map, number,
                       [key |-> EpicPrefix \o StrOfInt(number),
                        number |-> number,
                        title |-> FnGet(titles.epic_titles, number,
                                        DefaultEpicTitle(number)),
                        status |-> "backlog"]),
            titles, story_entries, i + 1)

\* sorted(numbers)
RECURSIVE SortedNumbers(_)
SortedNumbers(numbers) ==
  IF numbers = {} THEN <<>>
  ELSE LET least == CHOOSE n \in numbers : \A o \in numbers : n <= o
       IN <<least>> \o SortedNumbers(numbers \ {least})

CountStatus(stories, wanted) ==
  Cardinality({i \in DOMAIN stories : stories[i].status \in wanted})

SelectEpic(story_entries, epic_number) ==
  SelectSeq(story_entries, LAMBDA s : s.epic_number = epic_number)

\* An element of epic_progress counted over all stories, not the epic's.
EpicProgressOfAll(epic, epic_number, story_entries) ==
  LET stories == story_entries
  IN [key |-> epic.key, number |-> epic_number, title |-> epic.title,
      status |-> epic.status,
      story_total |-> Len(stories),
      story_done |-> CountStatus(stories, {"done"}),
      story_in_progress |-> CountStatus(stories, {"in-progress"}),
      story_review |-> CountStatus(stories, {"review"}),
      story_backlog |-> CountStatus(stories, {"backlog", "ready-for-dev"}),
      progress_percent |-> ProgressPercent(CountStatus(stories, {"done"}), Len(stories))]

\* One element of epic_progress.
EpicProgressOf(epic, epic_number, story_entries) ==
  LET stories == SelectEpic(story_entries, epic_number)
  IN [key |-> epic.key, number |-> epic_number, title |-> epic.title,
      status |-> epic.status,
      story_total |-> Len(stories),
      story_done |-> CountStatus(stories, {"done"}),
      story_in_progress |-> CountStatus(stories, {"in-progress"}),
      story_review |-> CountStatus(stories, {"review"}),
      story_backlog |-> CountStatus(stories, {"backlog", "ready-for-dev"}),
      progress_percent |-> ProgressPercent(CountStatus(stories, {"done"}), Len(stories))]

\* (epic_number, story_number) of a before that of b
PairLess(a, b) ==
  \/ a.epic_number < b.epic_number
  \/ a.epic_number = b.epic_number /\ a.story_number < b.story_number

\* list.sort(key=...) is stable: an entry goes after the entries that do
\* not come after it.
InsertStable(sorted, x) ==
  LET n == Cardinality({i \in DOMAIN sorted : ~PairLess(x, sorted[i])})
  IN SubSeq(sorted, 1, n) \o <<x>> \o SubSeq(sorted, n + 1, Len(sorted))

RECURSIVE SortStories(_, _)
SortStories(story_entries, i) ==
  IF i = 0 THEN <<>>
  ELSE InsertStable(SortStories(story_entries, i - 1), story_entries[i])

\* stories_by_status: the six keys at 0, then one more per story, a
\* status that is not among the six getting a key of its own.
\* The histogram without its six keys set to 0 first.
StoriesByStatusSparse(stories) ==
  [st \in {stories[i].status : i \in DOMAIN stories}
     |-> CountStatus(stories, {st})]

StoriesByStatus(stories) ==
  [st \in Range(STORY_STATUS_ORDER) \cup {stories[i].status : i \in DOMAIN stories}
     |-> CountStatus(stories, {st})]

build_board_data(fs) ==
  LET table == parse_sprint_status(fs.sprint)
      titles == parse_epic_and_story_titles(<<fs.visual, fs.epics>>)
      afterTable == TableLoop([epic_entries |-> <<>>, story_entries |-> <<>>,
                               story_keys_in_status |-> {}],
                              fs, titles, table, 1)
      afterGlob == GlobLoop(afterTable, fs, titles, SortedGlob(DOMAIN fs.files), 1)
      story_entries == afterGlob.story_entries
      epic_map == EpicMapWithStories(
                    EpicMapOfEntries(afterGlob.epic_entries, Len(afterGlob.epic_entries)),
                    titles, story_entries, 1)
      numbers == SortedNumbers(DOMAIN epic_map)
      epic_progress == [i \in DOMAIN numbers |->
                          EpicProgressOf(epic_map[numbers[i]], numbers[i], story_entries)]
      stories == SortStories(story_entries, Len(story_entries))
  IN [story_count |-> Len(stories),
      epic_count |-> Len(epic_progress),
      stories_by_status |-> StoriesByStatus(stories),
      status_mismatch_count |->
        Cardinality({i \in DOMAIN stories : stories[i].status_mismatch}),
      missing_file_count |->
        Cardinality({i \in DOMAIN stories : ~stories[i].file_exists}),
      epics |-> epic_progress,
      stories |-> stories]

(***************************************************************************)
(* The progress computation on its own: the pairs done <= total up to      *)
(* MaxTotal, each computed once.                                           *)
(***************************************************************************)
InitProgress ==
  /\ p_total \in 0..MaxTotal
  /\ p_done \in 0..p_total
  /\ p_pc = "start"
  /\ progress = 0
  /\ sprintDoc = <<>> /\ storyFiles = <<>> /\ visualDoc = <<>> /\ epicsDoc = <<>>
  /\ served = FALSE /\ board = <<>>
  /\ scan_pc = "idle" /\ scan_idx = 1 /\ in_dev = FALSE /\ statuses = <<>>

ComputeProgress ==
  /\ p_pc = "start"
  /\ progress' = ProgressPercent(p_done, p_total)
  /\ p_pc' = "done"
  /\ UNCHANGED <<p_done, p_total, fsVars, boardVars, scanVars>>

NextProgress == ComputeProgress

SpecProgress == InitProgress /\ [][NextProgress]_vars

\* C7: every epic's progress_percent is floor(100 * done / total) for
\* every 0 <= done <= total with total > 0, and 0 when total is 0.
C7_ProgressIsFloor ==
  p_pc = "done" => progress = ExactFloorPercent(p_done, p_total)

(***************************************************************************)
(* The artifact tree the board is built from, and its edits between two    *)
(* requests.  The keys, status texts and file contents the edits draw      *)
(* from:                                                                   *)
(***************************************************************************)
K_epic_1 == <<"e", "p", "i", "c", "-", "1">>
K_epic_01 == <<"e", "p", "i", "c", "-", "0", "1">>
K_1_1_setup == <<"1", "-", "1", "-", "s", "e", "t", "u", "p">>
K_1_1_other == <<"1", "-", "1", "-", "o", "t", "h", "e", "r">>
K_01_1_setup == <<"0", "1", "-", "1", "-", "s", "e", "t", "u", "p">>
K_2_1_ui == <<"2", "-", "1", "-", "u", "i">>
K_notes == <<"n", "o", "t", "e", "s">>

TableEntries ==
  {<<K_epic_1, "done">>, <<K_epic_1, "review">>, <<K_epic_1, "blocked">>,
   <<K_epic_01, "optional">>,
   <<K_1_1_setup, "done">>, <<K_1_1_setup, "review">>, <<K_1_1_setup, "blocked">>,
   <<K_1_1_other, "done">>,
   <<K_01_1_setup, "review">>,
   <<K_2_1_ui, "done">>, <<K_2_1_ui, "wip">>}

FileKeys == {K_1_1_setup, K_1_1_other, K_notes}

T_file == <<"F", "i", "l", "e">>

FileContents ==
  {<<>>,
   <<FileLine("status", 0, NoTitle, "Done", FALSE),
     FileLine("box", 0, NoTitle, "", TRUE)>>,
   <<FileLine("title", 0, T_file, "", FALSE),
     FileLine("box", 0, NoTitle, "", TRUE),
     FileLine("status", 0, NoTitle, "blocked", FALSE),
     FileLine("box", 0, NoTitle, "", FALSE),
     FileLine("box", 2, NoTitle, "", FALSE)>>,
   <<FileLine("text", 0, NoTitle, "", FALSE),
     FileLine("box", 0, NoTitle, "", FALSE)>>}

MarkerLine == Line(0, "marker", NoKey, "")

TheTree ==
  [sprint |-> sprintDoc, files |-> storyFiles, visual |-> visualDoc,
   epics |-> epicsDoc]

Init ==
  /\ sprintDoc = <<>> /\ storyFiles = <<>> /\ visualDoc = <<>> /\ epicsDoc = <<>>
  /\ served = FALSE /\ board = <<>>
  /\ scan_pc = "idle" /\ scan_idx = 1 /\ in_dev = FALSE /\ statuses = <<>>
  /\ p_done = 0 /\ p_total = 0 /\ p_pc = "idle" /\ progress = 0

\* The response of a request is sent and kept nowhere: an edit of the
\* tree leaves no snapshot behind.
Forget == served' = FALSE /\ board' = <<>>

CreateSprintStatus ==
  /\ sprintDoc = <<>>
  /\ sprintDoc' = <<MarkerLine>>
  /\ Forget
  /\ UNCHANGED <<storyFiles, visualDoc, epicsDoc, scanVars, progVars>>

AddStatusEntry ==
  /\ sprintDoc # <<>>
  /\ Len(sprintDoc) <= MaxEntries
  /\ \E e \in TableEntries : sprintDoc' = Append(sprintDoc, Line(2, "kv", e[1], e[2]))
  /\ Forget
  /\ UNCHANGED <<storyFiles, visualDoc, epicsDoc, scanVars, progVars>>

WriteStoryFile ==
  /\ \E k \in FileKeys, c \in FileContents :
       /\ k \in DOMAIN storyFiles \/ Cardinality(DOMAIN storyFiles) < MaxFiles
       /\ storyFiles' = FnSet(storyFiles, k, c)
  /\ Forget
  /\ UNCHANGED <<sprintDoc, visualDoc, epicsDoc, scanVars, progVars>>

DeleteStoryFile ==
  /\ \E k \in DOMAIN storyFiles :
       storyFiles' = [o \in DOMAIN storyFiles \ {k} |-> storyFiles[o]]
  /\ Forget
  /\ UNCHANGED <<sprintDoc, visualDoc, epicsDoc, scanVars, progVars>>

\* GET /api/board: the whole of build_board_data on the tree as it is.
Build ==
  /\ served' = TRUE
  /\ board' = <<build_board_data(TheTree)>>
  /\ UNCHANGED <<fsVars, scanVars, progVars>>

Next ==
  \/ CreateSprintStatus
  \/ AddStatusEntry
  \/ WriteStoryFile
  \/ DeleteStoryFile
  \/ Build

Spec == Init /\ [][Next]_vars

\* The snapshot of the last request, where there is one.
Snap == board[1]

StoryStatuses == Range(STORY_STATUS_ORDER)

EpicStatuses == Range(EPIC_STATUS_ORDER)

\* The status table as build_board_data reads it.
TheTable == parse_sprint_status(sprintDoc)

\* The positions of the stories of the snapshot that carry `key`.
RecordsOf(key) == {i \in DOMAIN Snap.stories : Snap.stories[i].key = key}

RECURSIVE SumOver(_, _)
SumOver(f, keys) ==
  IF keys = {} THEN 0
  ELSE LET k == CHOOSE x \in keys : TRUE IN f[k] + SumOver(f, keys \ {k})

\* C1: no two records of `stories` share both the epic number and the
\* story number, whatever the table keys and the file names.
C1_OneRecordPerPair ==
  served =>
    \A i, j \in DOMAIN Snap.stories :
      (/\ Snap.stories[i].epic_number = Snap.stories[j].epic_number
       /\ Snap.stories[i].story_number = Snap.stories[j].story_number) => i = j

\* C3: every story's status is one of the six story statuses, its
\* status_from_sprint and status_from_file one of the six or null, and
\* every epic's status one of the four epic statuses.
C3_StatusesInVocabulary ==
  served =>
    /\ \A i \in DOMAIN Snap.stories :
         /\ Snap.stories[i].status \in StoryStatuses
         /\ Snap.stories[i].status_from_sprint \in StoryStatuses \cup {NoneStatus}
         /\ Snap.stories[i].status_from_file \in StoryStatuses \cup {NoneStatus}
    /\ \A i \in DOMAIN Snap.epics : Snap.epics[i].status \in EpicStatuses

\* The status the first Status: line of a file declares, if any.
DeclaredStatus(text) ==
  IF \E i \in DOMAIN text : text[i].kind = "status"
    THEN LET first == CHOOSE i \in DOMAIN text :
                        /\ text[i].kind = "status"
                        /\ \A j \in 1..(i - 1) : text[j].kind # "status"
         IN normalize_status(text[first].value, "backlog")
    ELSE NoneStatus

DeclaredIn(key) ==
  IF key \in DOMAIN storyFiles THEN DeclaredStatus(storyFiles[key]) ELSE NoneStatus

\* The stories that come from the status table.
FromTable == {i \in DOMAIN Snap.stories : Snap.stories[i].status_from_sprint # NoneStatus}

\* C4: a story emitted from a table entry has the table's normalised
\* status as its status, whatever its file says; its status_mismatch is
\* true exactly when the file declares a status that differs from the
\* table's; status_mismatch_count is the number of such stories.
C4_TableIsAuthoritative ==
  served =>
    /\ \A k \in DictKeys(TheTable) :
         StoryKeyMatches(k) =>
           \E i \in FromTable :
             /\ Snap.stories[i].key = k
             /\ Snap.stories[i].status_from_sprint =
                  normalize_status(DictGet(TheTable, k), "backlog")
    /\ \A i \in FromTable :
         LET s == Snap.stories[i] IN
         /\ s.status = s.status_from_sprint
         /\ s.status_from_file = DeclaredIn(s.key)
         /\ s.status_mismatch <=>
              (s.status_from_file # NoneStatus /\ s.status_from_file # s.status_from_sprint)
    /\ Snap.status_mismatch_count =
         Cardinality({i \in FromTable :
                        /\ Snap.stories[i].status_from_file # NoneStatus
                        /\ Snap.stories[i].status_from_file
                             # Snap.stories[i].status_from_sprint})

C4_Witness ==
  /\ served
  /\ \E i \in FromTable :
       /\ Snap.stories[i].status_mismatch
       /\ Snap.stories[i].status = "done"
       /\ Snap.stories[i].status_from_file = "backlog"
  /\ Snap.status_mismatch_count = 1

\* C5: a story-shaped file whose key is not in the status table is in
\* `stories` exactly once, with a null status_from_sprint, no mismatch,
\* file_exists true and the file's declared status (backlog when it
\* declares none); a file whose key is in the table is not emitted a
\* second time.
C5_FileOnlyStories ==
  served =>
    \A k \in DOMAIN storyFiles :
      StoryKeyMatches(k) =>
        /\ Cardinality(RecordsOf(k)) = 1
        /\ \A i \in RecordsOf(k) :
             LET s == Snap.stories[i] IN
             IF k \in DictKeys(TheTable)
               THEN s.status_from_sprint # NoneStatus
               ELSE /\ s.status_from_sprint = NoneStatus
                    /\ s.status_mismatch = FALSE
                    /\ s.file_exists = TRUE
                    /\ s.status = IF DeclaredIn(k) # NoneStatus
                                    THEN DeclaredIn(k) ELSE "backlog"

C5_Witness ==
  /\ served
  /\ \E k \in DOMAIN storyFiles :
       /\ StoryKeyMatches(k)
       /\ k \notin DictKeys(TheTable)
       /\ DeclaredIn(k) = "done"
       /\ \E i \in RecordsOf(k) : Snap.stories[i].status = "done"
  /\ Snap.story_count = 2

\* C6: stories_by_status has exactly the six story statuses as keys, each
\* with the number of stories of that status, and the six counts sum to
\* story_count, the length of `stories`.
C6_Histogram ==
  served =>
    /\ DOMAIN Snap.stories_by_status = StoryStatuses
    /\ \A st \in StoryStatuses :
         /\ Snap.stories_by_status[st] >= 0
         /\ Snap.stories_by_status[st] =
              Cardinality({i \in DOMAIN Snap.stories : Snap.stories[i].status = st})
    /\ SumOver(Snap.stories_by_status, DOMAIN Snap.stories_by_status) = Snap.story_count
    /\ Snap.story_count = Len(Snap.stories)

C6_Witness ==
  /\ served
  /\ Snap.story_count = 2
  /\ Snap.stories_by_status["done"] = 1
  /\ Snap.stories_by_status["in-progress"] = 1
  /\ Snap.stories_by_status["optional"] = 0

\* The story keys of the table whose file is not on disk.
MissingKeys == {k \in DictKeys(TheTable) : StoryKeyMatches(k) /\ k \notin DOMAIN storyFiles}

\* C8: a table story whose file is absent is still emitted, with the
\* table's status, file_exists false, a null status_from_file, no
\* mismatch, a null updated_at and checklist counts 0/0;
\* missing_file_count is the number of such stories, and they count
\* toward their epic's progress.
C8_MissingFiles ==
  served =>
    /\ \A k \in MissingKeys :
         /\ Cardinality(RecordsOf(k)) = 1
         /\ \A i \in RecordsOf(k) :
              LET s == Snap.stories[i] IN
              /\ s.status = normalize_status(DictGet(TheTable, k), "backlog")
              /\ s.file_exists = FALSE
              /\ s.status_from_file = NoneStatus
              /\ s.status_mismatch = FALSE
              /\ s.updated_at = NoneTime
              /\ s.checklist_done = 0 /\ s.checklist_total = 0
              /\ \E e \in DOMAIN Snap.epics :
                   /\ Snap.epics[e].number = s.epic_number
                   /\ Snap.epics[e].story_total =
                        Cardinality({j \in DOMAIN Snap.stories :
                                       Snap.stories[j].epic_number = s.epic_number})
                   /\ Snap.epics[e].story_done =
                        Cardinality({j \in DOMAIN Snap.stories :
                                       /\ Snap.stories[j].epic_number = s.epic_number
                                       /\ Snap.stories[j].status = "done"})
    /\ Snap.missing_file_count = Cardinality(MissingKeys)

C8_Witness ==
  /\ served
  /\ K_1_1_setup \in MissingKeys
  /\ Snap.missing_file_count = 1
  /\ Snap.story_count = 1
  /\ Snap.stories[1].status = "done"
  /\ \E e \in DOMAIN Snap.epics :
       /\ Snap.epics[e].number = 1
       /\ Snap.epics[e].status = "done"
       /\ Snap.epics[e].story_done = 1
       /\ Snap.epics[e].progress_percent = 100

\* The epic numbers of the table's epic keys.
TableEpicNumbers == {EpicKeyNumber(k) : k \in {x \in DictKeys(TheTable) : EpicKeyMatches(x)}}

StoryEpicNumbers == {Snap.stories[i].epic_number : i \in DOMAIN Snap.stories}

\* C10: `epics` has one entry per epic number of an epic-<N> table key or
\* of an emitted story, in strictly ascending order of number; an epic
\* that only stories reference has status backlog; every story's epic is
\* listed; the story_total values sum to story_count; epic_count is the
\* length of `epics`.
C10_Epics ==
  served =>
    /\ {Snap.epics[i].number : i \in DOMAIN Snap.epics}
         = TableEpicNumbers \cup StoryEpicNumbers
    /\ \A i, j \in DOMAIN Snap.epics :
         i < j => Snap.epics[i].number < Snap.epics[j].number
    /\ \A i \in DOMAIN Snap.epics :
         Snap.epics[i].number \notin TableEpicNumbers => Snap.epics[i].status = "backlog"
    /\ SumOver([i \in DOMAIN Snap.epics |-> Snap.epics[i].story_total],
               DOMAIN Snap.epics) = Snap.story_count
    /\ Snap.epic_count = Len(Snap.epics)

C10_Witness ==
  /\ served
  /\ Snap.epic_count = 2
  /\ TableEpicNumbers = {1}
  /\ StoryEpicNumbers = {2}
  /\ Snap.epics[1].number = 1 /\ Snap.epics[1].story_total = 0
  /\ Snap.epics[2].number = 2 /\ Snap.epics[2].status = "backlog"

(***************************************************************************)
(* The titles: a tree with one epic and one story in the status table and  *)
(* a story file with a title of its own, whose two planning documents are  *)
(* written line by line between requests.                                  *)
(***************************************************************************)
T_visual == <<"V", "i", "s">>
T_plan == <<"P", "l", "a", "n">>

PlanningLines ==
  {TitleLine("epic", <<"1">>, <<>>, T_visual),
   TitleLine("epic", <<"0", "1">>, <<>>, T_plan),
   TitleLine("story", <<"1">>, <<"1">>, T_visual),
   TitleLine("story", <<"1">>, <<"1">>, T_plan),
   TitleLine("text", <<>>, <<>>, NoTitle)}

InitTitles ==
  /\ sprintDoc = <<MarkerLine, Line(2, "kv", K_epic_1, "done"),
                   Line(2, "kv", K_1_1_setup, "done")>>
  /\ storyFiles = FnSet(<<>>, K_1_1_setup,
                        <<FileLine("title", 0, T_file, "", FALSE)>>)
  /\ visualDoc = <<>> /\ epicsDoc = <<>>
  /\ served = FALSE /\ board = <<>>
  /\ scan_pc = "idle" /\ scan_idx = 1 /\ in_dev = FALSE /\ statuses = <<>>
  /\ p_done = 0 /\ p_total = 0 /\ p_pc = "idle" /\ progress = 0

WriteVisualLine ==
  /\ Len(visualDoc) < MaxTitleLines
  /\ \E l \in PlanningLines : visualDoc' = Append(visualDoc, l)
  /\ Forget
  /\ UNCHANGED <<sprintDoc, storyFiles, epicsDoc, scanVars, progVars>>

WriteEpicsLine ==
  /\ Len(epicsDoc) < MaxTitleLines
  /\ \E l \in PlanningLines : epicsDoc' = Append(epicsDoc, l)
  /\ Forget
  /\ UNCHANGED <<sprintDoc, storyFiles, visualDoc, scanVars, progVars>>

NextTitles ==
  \/ WriteVisualLine
  \/ WriteEpicsLine
  \/ Build

SpecTitles == InitTitles /\ [][NextTitles]_vars

\* The titles a document declares for epic `n`, and for story `n`.`m`.
EpicTitlesIn(doc, n) ==
  {doc[i].title : i \in {j \in DOMAIN doc :
                           doc[j].kind = "epic" /\ IntOfDigits(doc[j].epic) = n}}

StoryTitlesIn(doc, n, m) ==
  {doc[i].title : i \in {j \in DOMAIN doc :
                           /\ doc[j].kind = "story"
                           /\ IntOfDigits(doc[j].epic) = n
                           /\ IntOfDigits(doc[j].story) = m}}

\* C2: when the visualization document and the epics document both
\* declare a title for the same epic or for the same story, the board
\* uses the one of the visualization document.
C2_VisualizationWins ==
  served =>
    /\ \A i \in DOMAIN Snap.epics :
         LET n == Snap.epics[i].number IN
         (EpicTitlesIn(visualDoc, n) # {} /\ EpicTitlesIn(epicsDoc, n) # {})
           => Snap.epics[i].title \in EpicTitlesIn(visualDoc, n)
    /\ \A i \in DOMAIN Snap.stories :
         LET n == Snap.stories[i].epic_number
             m == Snap.stories[i].story_number IN
         (StoryTitlesIn(visualDoc, n, m) # {} /\ StoryTitlesIn(epicsDoc, n, m) # {})
           => Snap.stories[i].title \in StoryTitlesIn(visualDoc, n, m)

(***************************************************************************)
(* parse_sprint_status line by line: the call's loop over a status         *)
(* document, one iteration a step.                                         *)
(***************************************************************************)
ParseLines ==
  {MarkerLine,
   Line(0, "blank", NoKey, ""),
   Line(0, "comment", NoKey, ""),
   Line(2, "kv", K_1_1_setup, "done"),
   Line(2, "kv", K_1_1_setup, "wip"),
   Line(2, "kv", K_epic_1, "blocked"),
   Line(0, "kv", K_2_1_ui, "done"),
   Line(3, "kv", K_2_1_ui, "done")}

RECURSIVE DocsUpTo(_)
DocsUpTo(n) ==
  IF n = 0 THEN {<<>>}
  ELSE LET shorter == DocsUpTo(n - 1)
       IN shorter \cup {Append(d, l) : d \in {x \in shorter : Len(x) = n - 1},
                                       l \in ParseLines}

InitParse ==
  /\ sprintDoc \in DocsUpTo(MaxDocLines)
  /\ storyFiles = <<>> /\ visualDoc = <<>> /\ epicsDoc = <<>>
  /\ served = FALSE /\ board = <<>>
  /\ scan_pc = "call" /\ scan_idx = 1 /\ in_dev = FALSE /\ statuses = <<>>
  /\ p_done = 0 /\ p_total = 0 /\ p_pc = "idle" /\ progress = 0

\* if not text: return {}
ParseEmpty ==
  /\ scan_pc = "call"
  /\ sprintDoc = <<>>
  /\ scan_pc' = "done"
  /\ UNCHANGED <<scan_idx, in_dev, statuses, fsVars, boardVars, progVars>>

ParseStart ==
  /\ scan_pc = "call"
  /\ sprintDoc # <<>>
  /\ scan_pc' = "loop"
  /\ UNCHANGED <<scan_idx, in_dev, statuses, fsVars, boardVars, progVars>>

\* One iteration of the loop, on the line at scan_idx; a break leaves
\* scan_idx at the line that ended the block.
ParseLine ==
  /\ scan_pc = "loop"
  /\ scan_idx <= Len(sprintDoc)
  /\ LET st == ScanStep([in_dev |-> in_dev, statuses |-> statuses, broke |-> FALSE],
                        sprintDoc[scan_idx])
     IN /\ in_dev' = st.in_dev
        /\ statuses' = st.statuses
        /\ scan_pc' = IF st.broke THEN "done" ELSE "loop"
        /\ scan_idx' = IF st.broke THEN scan_idx ELSE scan_idx + 1
  /\ UNCHANGED <<fsVars, boardVars, progVars>>

ParseReturn ==
  /\ scan_pc = "loop"
  /\ scan_idx > Len(sprintDoc)
  /\ scan_pc' = "done"
  /\ UNCHANGED <<scan_idx, in_dev, statuses, fsVars, boardVars, progVars>>

NextParse ==
  \/ ParseEmpty
  \/ ParseStart
  \/ ParseLine
  \/ ParseReturn

SpecParse == InitParse /\ [][NextParse]_vars

\* The first marker line of the document (0: none), and the first line
\* after it that is neither blank nor a comment and is indented by fewer
\* than two spaces (Len + 1: none).
FirstMarker(doc) ==
  IF \E i \in DOMAIN doc : doc[i].kind = "marker"
    THEN CHOOSE i \in DOMAIN doc :
           doc[i].kind = "marker" /\ \A j \in 1..(i - 1) : doc[j].kind # "marker"
    ELSE 0

Ends(doc, i) == doc[i].kind \notin {"blank", "comment"} /\ doc[i].indent < 2

BlockEnd(doc) ==
  LET m == FirstMarker(doc) IN
  IF m = 0 THEN Len(doc) + 1
  ELSE IF \E i \in (m + 1)..Len(doc) : Ends(doc, i)
    THEN CHOOSE i \in (m + 1)..Len(doc) :
           Ends(doc, i) /\ \A j \in (m + 1)..(i - 1) : ~Ends(doc, j)
    ELSE Len(doc) + 1

\* The well-formed entry lines of the block among the lines before `limit`.
BlockEntries(doc, limit) ==
  LET m == FirstMarker(doc) IN
  IF m = 0 THEN {}
  ELSE {i \in (m + 1)..(BlockEnd(doc) - 1) : i < limit /\ TableLineMatches(doc[i])}

LastEntryOf(doc, limit, key) ==
  CHOOSE i \in BlockEntries(doc, limit) :
    /\ doc[i].key = key
    /\ \A j \in BlockEntries(doc, limit) : doc[j].key = key => j <= i

\* `d` holds exactly the entries of the block before `limit`, each key
\* with the value of its last line.
HoldsBlock(d, doc, limit) ==
  /\ DictKeys(d) = {doc[i].key : i \in BlockEntries(doc, limit)}
  /\ \A i, j \in DOMAIN d : d[i][1] = d[j][1] => i = j
  /\ \A k \in DictKeys(d) :
       DictGet(d, k) =
         LET v == doc[LastEntryOf(doc, limit, k)].value IN normalize_status(v, v)

\* C9: parse_sprint_status returns exactly the entries of the well-formed
\* two-space-indented lines after the first marker line and before the
\* first later line that is neither blank nor a comment and is not
\* indented by two spaces; no line before the marker or after the end of
\* the block contributes at any time; blank, comment and malformed lines
\* inside the block neither end it nor contribute; the last occurrence
\* of a key gives its value.
C9_BlockOnly ==
  /\ HoldsBlock(statuses, sprintDoc, scan_idx)
  /\ scan_pc = "done" => HoldsBlock(statuses, sprintDoc, Len(sprintDoc) + 1)

C9_Witness ==
  /\ scan_pc = "done"
  /\ Len(sprintDoc) = 5
  /\ TableLineMatches(sprintDoc[1])
  /\ FirstMarker(sprintDoc) = 2
  /\ sprintDoc[3] = Line(2, "kv", K_epic_1, "blocked")
  /\ BlockEnd(sprintDoc) = 4
  /\ TableLineMatches(sprintDoc[5])
  /\ sprintDoc[5].key = K_1_1_setup
  /\ DictKeys(statuses) = {K_epic_1}

====
